---- MODULE Spec2Model ----
(***************************************************************************)
(* The research pipeline of src/app.py: fetch_threads, summarise_threads,  *)
(* generate_report and the module-level driver that runs them in order.    *)
(*                                                                         *)
(* Strings are sequences of one-character strings.  A thread keeps the     *)
(* fields the pipeline reads after the fetch (id, title, url, summary);    *)
(* body, comments and created only feed the payload excerpt.  A JSON value *)
(* is a record with its Python type in "kind".  The Streamlit widgets      *)
(* other than the progress bar (status slot, sample slot, ticker) are not  *)
(* part of the state.                                                      *)
(***************************************************************************)
EXTENDS Integers, Sequences, FiniteSets, TLC

\* ---------------------------------------------------------------- bounds
MaxThreads == 3
MaxBatch == 2
ReplyWidth == 1
MaxQuestions == 1
CorpusThreads == 2

\* ------------------------------------------------------ program constants
DefaultBatch == 6
CorpusBudget == 15000
QuestionCap == 5

\* The end-to-end run: two full batches of the default size.
E2EThreads == 2 * DefaultBatch

\* ---------------------------------------------------------------- strings
\* A string is the sequence of its runs: [c |-> character, n |-> repetitions],
\* n >= 1, neighbouring runs of different characters.
Min(a, b) == IF a <= b THEN a ELSE b

\* c * n
Repeat(c, n) == IF n = 0 THEN <<>> ELSE <<[c |-> c, n |-> n]>>

\* a + b
Cat(a, b) ==
    IF a = <<>> THEN b
    ELSE IF b = <<>> THEN a
    ELSE IF a[Len(a)].c = b[1].c
         THEN SubSeq(a, 1, Len(a) - 1)
                  \o <<[c |-> b[1].c, n |-> a[Len(a)].n + b[1].n]>> \o Tail(b)
         ELSE a \o b

\* the string of a sequence of characters
RECURSIVE Lit(_)
Lit(chars) == IF chars = <<>> THEN <<>> ELSE Cat(Repeat(chars[1], 1), Lit(Tail(chars)))

\* the characters of runs lo..hi
RECURSIVE RunSum(_, _, _)
RunSum(s, lo, hi) ==
    IF lo > hi THEN 0
    ELSE IF lo = hi THEN s[lo].n
    ELSE LET mid == (lo + hi) \div 2
         IN RunSum(s, lo, mid) + RunSum(s, mid + 1, hi)

\* len(s)
StrLen(s) == RunSum(s, 1, Len(s))

\* the leading runs that lie within the first n characters
WholeRuns(s, n) == Cardinality({k \in 1..Len(s) : RunSum(s, 1, k) <= n})

\* s[:n]
Take(s, n) ==
    LET k == WholeRuns(s, n)
        rest == n - RunSum(s, 1, k)
    IN IF k = Len(s) \/ rest <= 0 THEN SubSeq(s, 1, k)
       ELSE Append(SubSeq(s, 1, k), [c |-> s[k + 1].c, n |-> rest])

\* s[n:]
Drop(s, n) ==
    LET k == WholeRuns(s, n)
        rest == n - RunSum(s, 1, k)
    IN IF k = Len(s) THEN <<>>
       ELSE IF rest <= 0 THEN SubSeq(s, k + 1, Len(s))
       ELSE <<[c |-> s[k + 1].c, n |-> s[k + 1].n - rest]>> \o SubSeq(s, k + 2, Len(s))

Digit(d) ==
    CASE d = 0 -> "0" [] d = 1 -> "1" [] d = 2 -> "2" [] d = 3 -> "3"
      [] d = 4 -> "4" [] d = 5 -> "5" [] d = 6 -> "6" [] d = 7 -> "7"
      [] d = 8 -> "8" [] d = 9 -> "9"

\* str(n) for n >= 0
RECURSIVE DecStr(_)
DecStr(n) ==
    IF n < 10 THEN Repeat(Digit(n), 1)
    ELSE Cat(DecStr(n \div 10), Repeat(Digit(n % 10), 1))

\* sep.join(parts)
RECURSIVE JoinWith(_, _)
JoinWith(sep, parts) ==
    IF Len(parts) = 0 THEN <<>>
    ELSE IF Len(parts) = 1 THEN parts[1]
    ELSE Cat(parts[1], Cat(sep, JoinWith(sep, Tail(parts))))

\* ------------------------------------------------------------ JSON values
Unset == [kind |-> "unset", hasGist |-> FALSE, gist |-> <<>>]
EmptySummary == [kind |-> "dict", hasGist |-> FALSE, gist |-> <<>>]
GistSummary == [kind |-> "dict", hasGist |-> TRUE, gist |-> Repeat("g", 1)]
TextValue == [kind |-> "str", hasGist |-> FALSE, gist |-> <<>>]

\* What the model may put under a thread id.
ReplyValues == {GistSummary, TextValue}

NoReply == [json |-> "none", obj |-> <<>>]
InvalidReply == [json |-> "invalid", obj |-> <<>>]
ArrayReply == [json |-> "array", obj |-> <<>>]

\* The JSON objects the model may answer a batch with: every thread among the
\* first ReplyWidth of the batch is mapped or left out on its own, the rest of
\* the batch together.
ObjectReplies(ids) ==
    LET w == Min(Len(ids), ReplyWidth + 1)
        slot(p) == Min(p, w)
    IN { LET keys == {ids[p] : p \in {q \in 1..Len(ids) : c[slot(q)] # Unset}}
             pos(k) == CHOOSE p \in 1..Len(ids) : ids[p] = k
         IN [json |-> "object", obj |-> [k \in keys |-> c[slot(pos(k))]]]
         : c \in [1..w -> ReplyValues \cup {Unset}] }

ModelReplies(ids) == {InvalidReply, ArrayReply} \cup ObjectReplies(ids)

\* ------------------------------------------------------------------ state
VARIABLES
    pc,          \* the driver's stage
    phase,       \* position inside the running stage
    failure,     \* the call that raised, when pc = "Failed"
    rejected,    \* st.stop() after a failed validation
    subreddit, questions, batch,   \* the run's inputs
    forum,       \* the posts the listing yields
    raw_threads, threads,
    i, done, total,                \* summarise_threads' locals
    resp,        \* the reply of the batch's model call
    batches,     \* history: the payload keys of every batch sent
    replies,     \* history: the reply merged for every batch
    progress,    \* the values handed to progress_bar.progress, as <<done, total>>
    fetchCalls, sumCalls, synCalls,
    request,     \* the messages of the synthesis call
    report_md,   \* st.session_state["report_md"]
    stages,      \* history: the stages entered
    log          \* history: the external calls and their completions

vars == <<pc, phase, failure, rejected, subreddit, questions, batch, forum,
          raw_threads, threads, i, done, total, resp, batches, replies,
          progress, fetchCalls, sumCalls, synCalls, request, report_md,
          stages, log>>

inputs == <<subreddit, questions, batch, forum>>
loopVars == <<i, done, total, resp, batches, replies, progress>>

NoRequest == [sent |-> FALSE, corpus |-> <<>>, q_block |-> <<>>, n |-> 0]
NoReport == <<>>
ReportText == Repeat("r", 1)

Event(e, n) == [ev |-> e, n |-> n]

\* ----------------------------------------------------------------- inputs
Post(k, title) ==
    [id |-> k, title |-> title, url |-> Cat(Repeat("u", 1), DecStr(k))]

ShortTitle(k) == Cat(Repeat("T", 1), DecStr(k))

Forum(n) == [k \in 1..n |-> Post(k, ShortTitle(k))]

QuestionLists == {[k \in 1..n |-> Repeat("q", 1)] : n \in 0..Min(MaxQuestions, QuestionCap)}

\* <<threads, batch size>>
RunSizes ==
    {<<n, b>> : n \in 0..MaxThreads, b \in 1..MaxBatch}
        \cup {<<E2EThreads, DefaultBatch>>}

Init ==
    /\ pc = "Idle"
    /\ phase = "idle"
    /\ failure = "none"
    /\ rejected = FALSE
    /\ subreddit \in {<<>>, Repeat("h", 1)}
    /\ questions \in QuestionLists
    /\ \E s \in RunSizes : forum = Forum(s[1]) /\ batch = s[2]
    /\ raw_threads = <<>>
    /\ threads = <<>>
    /\ i = 0 /\ done = 0 /\ total = 0
    /\ resp = NoReply
    /\ batches = <<>>
    /\ replies = <<>>
    /\ progress = <<>>
    /\ fetchCalls = 0 /\ sumCalls = 0 /\ synCalls = 0
    /\ request = NoRequest
    /\ report_md = NoReport
    /\ stages = <<"Idle">>
    /\ log = <<>>

\* ----------------------------------------------------------------- driver
Enter(stage) == pc' = stage /\ stages' = Append(stages, stage)

Fail(cause) ==
    /\ Enter("Failed")
    /\ failure' = cause
    /\ phase' = "idle"

\* if run_clicked: both validations pass, fetch_threads is called
ClickRun ==
    /\ pc = "Idle" /\ ~rejected
    /\ subreddit # <<>> /\ questions # <<>>
    /\ Enter("Fetching")
    /\ fetchCalls' = fetchCalls + 1
    /\ log' = Append(log, Event("fetch_call", 0))
    /\ UNCHANGED <<phase, failure, rejected, inputs, raw_threads, threads,
                   loopVars, sumCalls, synCalls, request, report_md>>

\* a validation fails: st.error, st.stop
RejectRun ==
    /\ pc = "Idle" /\ ~rejected
    /\ subreddit = <<>> \/ questions = <<>>
    /\ rejected' = TRUE
    /\ UNCHANGED <<pc, phase, failure, inputs, raw_threads, threads, loopVars,
                   fetchCalls, sumCalls, synCalls, request, report_md, stages, log>>

\* ----------------------------------------------------------- fetch_threads
\* one pass of the for loop: threads.append({...})
FetchPost ==
    /\ pc = "Fetching"
    /\ Len(raw_threads) < Len(forum)
    /\ raw_threads' = Append(raw_threads, forum[Len(raw_threads) + 1])
    /\ log' = Append(log, Event("fetch_item", Len(raw_threads) + 1))
    /\ UNCHANGED <<pc, phase, failure, rejected, inputs, threads, loopVars,
                   fetchCalls, sumCalls, synCalls, request, report_md, stages>>

\* the listing or a comment expansion raises; nothing catches it
FetchRaise ==
    /\ pc = "Fetching"
    /\ Fail("fetch")
    /\ log' = Append(log, Event("fetch_raise", 0))
    /\ UNCHANGED <<rejected, inputs, raw_threads, threads, loopVars,
                   fetchCalls, sumCalls, synCalls, request, report_md>>

\* json.loads(json.dumps(raw_threads)): a deep copy of dicts of strings
SafeCopy(ts) == [k \in 1..Len(ts) |-> [id |-> ts[k].id, title |-> ts[k].title,
                                       url |-> ts[k].url, summary |-> Unset]]

\* the listing is exhausted: return threads; the copy; summarise_threads starts
FetchReturn ==
    /\ pc = "Fetching"
    /\ Len(raw_threads) = Len(forum)
    /\ threads' = SafeCopy(raw_threads)
    /\ Enter("Summarizing")
    /\ phase' = "loop"
    /\ total' = Len(raw_threads)
    /\ done' = 0
    /\ i' = 0
    /\ log' = Append(log, Event("fetch_return", Len(raw_threads)))
    /\ UNCHANGED <<failure, rejected, inputs, raw_threads, resp, batches,
                   replies, progress, fetchCalls, sumCalls, synCalls, request,
                   report_md>>

\* -------------------------------------------------------- summarise_threads
\* threads[i:i + batch + 1]: the slice runs one thread into the next batch
ChunkOverlap(ts, from, size) == SubSeq(ts, from + 1, Min(from + size + 1, Len(ts)))

\* threads[i:i + batch]
Chunk(ts, from, size) == SubSeq(ts, from + 1, Min(from + size, Len(ts)))

\* the keys of payload, in insertion order
PayloadKeys(chunk) == [k \in 1..Len(chunk) |-> chunk[k].id]

\* range(0, total, batch): the index of the next pass
NextIndex(from, size) == from + size

\* the loop body up to the request: chunk, payload, msgs, create(...)
SendBatch ==
    /\ pc = "Summarizing" /\ phase = "loop"
    /\ i < total
    /\ batches' = Append(batches, PayloadKeys(Chunk(threads, i, batch)))
    /\ sumCalls' = sumCalls + 1
    /\ phase' = "wait"
    /\ log' = Append(log, Event("sum_call", Len(batches) + 1))
    /\ UNCHANGED <<pc, failure, rejected, inputs, raw_threads, threads, i, done,
                   total, resp, replies, progress, fetchCalls, synCalls,
                   request, report_md, stages>>

\* the call moved inside the try: the error is absorbed like a parse failure
SummariseModelRaiseAbsorbed ==
    /\ pc = "Summarizing" /\ phase = "wait"
    /\ resp' = InvalidReply
    /\ replies' = Append(replies, InvalidReply)
    /\ phase' = "merge"
    /\ log' = Append(log, Event("sum_raise", Len(batches)))
    /\ UNCHANGED <<pc, failure, rejected, inputs, raw_threads, threads, i, done,
                   total, batches, progress, fetchCalls, sumCalls, synCalls,
                   request, report_md, stages>>

\* openai.chat.completions.create raises (line 119 is outside the try)
SummariseModelRaise ==
    /\ pc = "Summarizing" /\ phase = "wait"
    /\ Fail("summarise_call")
    /\ log' = Append(log, Event("sum_raise", Len(batches)))
    /\ UNCHANGED <<rejected, inputs, raw_threads, threads, loopVars,
                   fetchCalls, sumCalls, synCalls, request, report_md>>

\* the call returns with some text
SummariseModelReply ==
    /\ pc = "Summarizing" /\ phase = "wait"
    /\ \E r \in ModelReplies(batches[Len(batches)]) :
          /\ resp' = r
          /\ replies' = Append(replies, r)
    /\ phase' = "merge"
    /\ log' = Append(log, Event("sum_reply", Len(batches)))
    /\ UNCHANGED <<pc, failure, rejected, inputs, raw_threads, threads, i, done,
                   total, batches, progress, fetchCalls, sumCalls, synCalls,
                   request, report_md, stages>>

EmptyObject == [json |-> "object", obj |-> <<>>]

\* summaries = {}; try: summaries = json.loads(content); except Exception: print
ParseSummaries(r) == IF r.json = "invalid" THEN EmptyObject ELSE r

\* summaries.get(id): no default, an absent id leaves None
SummariesGetNoDefault(summaries, id) ==
    IF id \in DOMAIN summaries.obj THEN summaries.obj[id] ELSE Unset

\* summaries.get(id, {}) on a dict
SummariesGet(summaries, id) ==
    IF id \in DOMAIN summaries.obj THEN summaries.obj[id] ELSE EmptySummary

\* for t in chunk: t["summary"] = summaries.get(t["id"], {})
MergeInto(ts, from, size, summaries) ==
    [k \in 1..Len(ts) |->
        IF from < k /\ k <= Min(from + size, Len(ts))
        THEN [ts[k] EXCEPT !.summary = SummariesGet(summaries, ts[k].id)]
        ELSE ts[k]]

\* progress reported before done is advanced
ProgressBefore(d, chunkLen, t) == <<d, t>>

\* done += len(chunk); progress_bar.progress(done / total)
ProgressAfter(d, chunkLen, t) == <<d + chunkLen, t>>

\* the rest of the loop body when summaries is a dict
MergeBatch ==
    /\ pc = "Summarizing" /\ phase = "merge"
    /\ ParseSummaries(resp).json = "object"
    /\ threads' = MergeInto(threads, i, batch, ParseSummaries(resp))
    /\ done' = done + Len(Chunk(threads, i, batch))
    /\ progress' = Append(progress,
                          ProgressAfter(done, Len(Chunk(threads, i, batch)), total))
    /\ i' = NextIndex(i, batch)
    /\ phase' = "loop"
    /\ log' = log \o <<Event("merge", Len(batches)), Event("progress", Len(batches))>>
    /\ UNCHANGED <<pc, failure, rejected, inputs, raw_threads, total, resp,
                   batches, replies, fetchCalls, sumCalls, synCalls, request,
                   report_md, stages>>

\* json.loads returned a list, a string, a number or null: summaries.get raises
\* AttributeError on the first thread of the chunk, outside the try
MergeRaise ==
    /\ pc = "Summarizing" /\ phase = "merge"
    /\ ParseSummaries(resp).json # "object"
    /\ Fail("merge")
    /\ log' = Append(log, Event("merge_raise", Len(batches)))
    /\ UNCHANGED <<rejected, inputs, raw_threads, threads, loopVars,
                   fetchCalls, sumCalls, synCalls, request, report_md>>

\* a return inside the loop body: the function returns after any batch
SummariseReturnEarly ==
    /\ pc = "Summarizing" /\ phase = "loop"
    /\ Enter("Synthesizing")
    /\ phase' = "build"
    /\ log' = Append(log, Event("sum_return", Len(batches)))
    /\ UNCHANGED <<failure, rejected, inputs, raw_threads, threads, loopVars,
                   fetchCalls, sumCalls, synCalls, request, report_md>>

\* the loop ends; summarise_threads returns and generate_report is called
SummariseReturn ==
    /\ pc = "Summarizing" /\ phase = "loop"
    /\ i >= total
    /\ Enter("Synthesizing")
    /\ phase' = "build"
    /\ log' = Append(log, Event("sum_return", Len(batches)))
    /\ UNCHANGED <<failure, rejected, inputs, raw_threads, threads, loopVars,
                   fetchCalls, sumCalls, synCalls, request, report_md>>

\* ---------------------------------------------------------- generate_report
\* the one character U+2013 of the f-string
EnDash == "-"

\* t['summary'].get('gist', '') on a dict
GistOf(summary) == IF summary.hasGist THEN summary.gist ELSE <<>>

\* f"{t['title']} - {gist} [URL]({t['url']})"
Entry(t) ==
    Cat(t.title, Cat(Lit(<<" ", EnDash, " ">>), Cat(GistOf(t.summary),
        Cat(Lit(<<" ", "[", "U", "R", "L", "]", "(">>), Cat(t.url, Lit(<<")">>))))))

Entries(ts) == [k \in 1..Len(ts) |-> Entry(ts[k])]

\* the budget applied to each entry instead of to the joined string
CorpusPerEntry(ts) ==
    JoinWith(Lit(<<"\n", "\n">>),
             [k \in 1..Len(ts) |-> Take(Entry(ts[k]), CorpusBudget)])

\* "\n\n".join(...)[:15000]
Corpus(ts) == Take(JoinWith(Lit(<<"\n", "\n">>), Entries(ts)), CorpusBudget)

\* .get on a summary that is no dict raises AttributeError
CorpusRaises(ts) == \E k \in 1..Len(ts) : ts[k].summary.kind # "dict"

\* "\n".join(f"Q{i+1}. {q}" for i, q in enumerate(questions))
QBlock(qs) ==
    JoinWith(Lit(<<"\n">>),
             [k \in 1..Len(qs) |-> Cat(Lit(<<"Q">>), Cat(DecStr(k), Cat(Lit(<<".", " ">>), qs[k])))])

\* corpus, q_block, prompt, msgs, create(...)
SendReport ==
    /\ pc = "Synthesizing" /\ phase = "build"
    /\ ~CorpusRaises(threads)
    /\ request' = [sent |-> TRUE, corpus |-> Corpus(threads),
                   q_block |-> QBlock(questions), n |-> Len(threads)]
    /\ synCalls' = synCalls + 1
    /\ phase' = "wait"
    /\ log' = Append(log, Event("syn_call", 0))
    /\ UNCHANGED <<pc, failure, rejected, inputs, raw_threads, threads, loopVars,
                   fetchCalls, sumCalls, report_md, stages>>

\* the corpus expression raises before any request is built
CorpusRaise ==
    /\ pc = "Synthesizing" /\ phase = "build"
    /\ CorpusRaises(threads)
    /\ Fail("corpus")
    /\ log' = Append(log, Event("corpus_raise", 0))
    /\ UNCHANGED <<rejected, inputs, raw_threads, threads, loopVars,
                   fetchCalls, sumCalls, synCalls, request, report_md>>

\* the error is caught and the call is made again
ReportModelRaiseRetry ==
    /\ pc = "Synthesizing" /\ phase = "wait"
    /\ phase' = "build"
    /\ log' = Append(log, Event("syn_raise", 0))
    /\ UNCHANGED <<pc, failure, rejected, inputs, raw_threads, threads, loopVars,
                   fetchCalls, sumCalls, synCalls, request, report_md, stages>>

\* openai.chat.completions.create raises
ReportModelRaise ==
    /\ pc = "Synthesizing" /\ phase = "wait"
    /\ Fail("synthesis_call")
    /\ log' = Append(log, Event("syn_raise", 0))
    /\ UNCHANGED <<rejected, inputs, raw_threads, threads, loopVars,
                   fetchCalls, sumCalls, synCalls, request, report_md>>

\* the call returns; the driver stores the report in the session state
ReportModelReply ==
    /\ pc = "Synthesizing" /\ phase = "wait"
    /\ Enter("Done")
    /\ phase' = "idle"
    /\ report_md' = ReportText
    /\ log' = Append(log, Event("syn_reply", 0))
    /\ UNCHANGED <<failure, rejected, inputs, raw_threads, threads, loopVars,
                   fetchCalls, sumCalls, synCalls, request>>

Next ==
    \/ ClickRun \/ RejectRun
    \/ FetchPost \/ FetchRaise \/ FetchReturn
    \/ SendBatch \/ SummariseModelRaise \/ SummariseModelReply
    \/ MergeBatch \/ MergeRaise \/ SummariseReturn
    \/ SendReport \/ CorpusRaise \/ ReportModelRaise \/ ReportModelReply

Spec == Init /\ [][Next]_vars

\* ------------------------------------------ generate_report called directly
\* Title lengths that put the cut inside a title, right after an entry, inside
\* an entry's tail and nowhere.
TitleLens == {2, CorpusBudget \div 2, CorpusBudget - 20, CorpusBudget - 13}

StoredSummaries == {EmptySummary, GistSummary, TextValue}

\* Thread lists as summarise_threads leaves them, with titles of any length.
ReportThreads ==
    UNION { { [k \in 1..n |-> [id |-> k, title |-> Repeat("x", lens[k]),
                               url |-> Cat(Repeat("u", 1), DecStr(k)),
                               summary |-> sums[k]]]
              : lens \in [1..n -> TitleLens], sums \in [1..n -> StoredSummaries] }
            : n \in 0..CorpusThreads }

InitReport ==
    /\ pc = "Synthesizing"
    /\ phase = "build"
    /\ failure = "none"
    /\ rejected = FALSE
    /\ subreddit = Repeat("h", 1)
    /\ questions \in QuestionLists
    /\ batch = DefaultBatch
    /\ forum = <<>>
    /\ raw_threads = <<>>
    /\ threads \in ReportThreads
    /\ i = 0 /\ done = 0 /\ total = 0
    /\ resp = NoReply
    /\ batches = <<>>
    /\ replies = <<>>
    /\ progress = <<>>
    /\ fetchCalls = 0 /\ sumCalls = 0 /\ synCalls = 0
    /\ request = NoRequest
    /\ report_md = NoReport
    /\ stages = <<"Synthesizing">>
    /\ log = <<>>

NextReport == SendReport \/ CorpusRaise \/ ReportModelRaise \/ ReportModelReply

SpecReport == InitReport /\ [][NextReport]_vars

\* ================================================================ properties
CeilDiv(n, b) == (n + b - 1) \div b

Pipeline == <<"Idle", "Fetching", "Summarizing", "Synthesizing", "Done">>

\* summarise_threads has returned normally
SummariseReturned == \E p \in 1..Len(log) : log[p].ev = "sum_return"

\* generate_report has returned or raised
ReportEnded ==
    pc = "Done" \/ (pc = "Failed" /\ failure \in {"corpus", "synthesis_call"})

\* the positions in threads of batch k
BatchFirst(k) == (k - 1) * batch + 1
BatchLast(k) == Min(k * batch, Len(threads))
BatchOf(t) == CeilDiv(t, batch)

\* batch k's results have been merged
Merged(k) == k <= Len(progress)

HasEvent(e) == \E p \in 1..Len(log) : log[p].ev = e

\* ------------------------------------------------------------------------ C1
\* C1: every batch sent holds the ids of threads (k-1)*B+1 .. min(k*B, n) in
\* input order, so it has at most B threads and only the last may have fewer;
\* once summarise_threads has returned there are exactly ceil(n/B) batches and
\* every thread is in exactly one of them.
C1_BatchPartition ==
    /\ \A k \in 1..Len(batches) :
          /\ batches[k] = [j \in 1..(BatchLast(k) - BatchFirst(k) + 1) |->
                              threads[BatchFirst(k) + j - 1].id]
          /\ Len(batches[k]) >= 1 /\ Len(batches[k]) <= batch
          /\ k < Len(batches) => Len(batches[k]) = batch
    /\ Len(batches) <= CeilDiv(Len(threads), batch)
    /\ SummariseReturned =>
          /\ Len(batches) = CeilDiv(Len(threads), batch)
          /\ \A t \in 1..Len(threads) :
                Cardinality({<<k, j>> \in (1..Len(batches)) \X (1..batch) :
                                j <= Len(batches[k]) /\ batches[k][j] = threads[t].id}) = 1

\* three threads in batches of two: a full batch and a shorter last one
C1_Witness ==
    /\ SummariseReturned
    /\ Len(threads) = 3 /\ batch = 2
    /\ Len(batches) = 2 /\ Len(batches[2]) = 1

\* ------------------------------------------------------------------------ C2
\* C2: a reply that cannot be parsed as a mapping (no JSON at all, or JSON that
\* is no object) never aborts the run: its batch is merged with empty
\* summaries and the loop goes on.
C2_ParseFailureIsolated ==
    \A k \in 1..Len(replies) :
        replies[k].json # "object" =>
            /\ ~(pc = "Failed" /\ failure = "merge")
            /\ Merged(k) => \A t \in BatchFirst(k)..BatchLast(k) :
                               threads[t].summary = EmptySummary

\* ------------------------------------------------------------------------ C3
\* C3: after a batch whose reply is a JSON object is merged, each of its threads
\* whose id is a key has exactly the mapped value as summary and each of its
\* threads whose id is absent has the empty summary; an object reply never
\* makes the merge raise.
C3_MergeByKey ==
    /\ \A k \in 1..Len(replies) :
          (replies[k].json = "object" /\ Merged(k)) =>
              \A t \in BatchFirst(k)..BatchLast(k) :
                  IF threads[t].id \in DOMAIN replies[k].obj
                  THEN threads[t].summary = replies[k].obj[threads[t].id]
                  ELSE threads[t].summary = EmptySummary
    /\ (pc = "Failed" /\ failure = "merge") => replies[Len(replies)].json # "object"
    /\ \A k \in 1..Len(replies) :
          (replies[k].json = "object" /\ k < Len(replies)) => Merged(k)

\* a merged batch of two whose reply maps one id and leaves the other out
C3_Witness ==
    \E k \in 1..Len(replies) :
        /\ replies[k].json = "object" /\ Merged(k)
        /\ \E t, u \in BatchFirst(k)..BatchLast(k) :
              /\ threads[t].id \in DOMAIN replies[k].obj
              /\ threads[t].summary = GistSummary
              /\ threads[u].id \notin DOMAIN replies[k].obj
              /\ threads[u].summary = EmptySummary

\* ------------------------------------------------------------------------ C4
\* C4: once summarise_threads has returned, every thread's summary is a dict
\* (populated or empty) and generate_report never raises while it builds the
\* corpus.
C4_CorpusNeverRaises ==
    SummariseReturned =>
        /\ \A t \in 1..Len(threads) : threads[t].summary.kind = "dict"
        /\ ~(pc = "Failed" /\ failure = "corpus")

\* ------------------------------------------------------------------------ C5
JoinedEntries == JoinWith(Lit(<<"\n", "\n">>), Entries(threads))

\* the offset of entry k in the joined string
RECURSIVE EntryStart(_)
EntryStart(k) ==
    IF k = 1 THEN 0
    ELSE EntryStart(k - 1) + StrLen(Entry(threads[k - 1])) + 2

EntryEnd(k) == EntryStart(k) + StrLen(Entry(threads[k]))

\* C5: the corpus of the request has at most 15000 characters and is the
\* prefix of that length of the joined entries; it is the whole join when the
\* join fits, and every entry that ends at or before the cut stands in it in
\* full at its own offset.
C5_CorpusBudget ==
    request.sent =>
        /\ StrLen(request.corpus) <= CorpusBudget
        /\ request.corpus = Take(JoinedEntries, StrLen(request.corpus))
        /\ StrLen(JoinedEntries) <= CorpusBudget => request.corpus = JoinedEntries
        /\ StrLen(JoinedEntries) > CorpusBudget => StrLen(request.corpus) = CorpusBudget
        /\ \A k \in 1..Len(threads) :
              EntryEnd(k) <= StrLen(request.corpus) =>
                  Take(Drop(request.corpus, EntryStart(k)), StrLen(Entry(threads[k])))
                      = Entry(threads[k])

\* the join is over budget, the first entry is whole and the cut falls inside
\* the second
C5_Witness ==
    /\ request.sent
    /\ Len(threads) >= 2
    /\ StrLen(JoinedEntries) > CorpusBudget
    /\ EntryEnd(1) < CorpusBudget
    /\ EntryStart(2) < CorpusBudget /\ CorpusBudget < EntryEnd(2)

\* ------------------------------------------------------------------------ C6
\* b may directly follow a in the log of one run
Follows(a, b) ==
    CASE a.ev = "fetch_call" ->
            b \in {Event("fetch_item", 1), Event("fetch_raise", 0), Event("fetch_return", 0)}
      [] a.ev = "fetch_item" ->
            b \in {Event("fetch_item", a.n + 1), Event("fetch_raise", 0),
                   Event("fetch_return", a.n)}
      [] a.ev = "fetch_return" -> b \in {Event("sum_call", 1), Event("sum_return", 0)}
      [] a.ev = "sum_call" -> b \in {Event("sum_reply", a.n), Event("sum_raise", a.n)}
      [] a.ev = "sum_reply" -> b \in {Event("merge", a.n), Event("merge_raise", a.n)}
      [] a.ev = "merge" -> b = Event("progress", a.n)
      [] a.ev = "progress" -> b \in {Event("sum_call", a.n + 1), Event("sum_return", a.n)}
      [] a.ev = "sum_return" -> b \in {Event("syn_call", 0), Event("corpus_raise", 0)}
      [] a.ev = "syn_call" -> b \in {Event("syn_reply", 0), Event("syn_raise", 0)}
      [] OTHER -> FALSE

\* C6: the stages entered are a prefix of Idle, Fetching, Summarizing,
\* Synthesizing, Done, or such a prefix short of Done followed by Failed, which
\* is entered only with an error; all posts are fetched before the first batch
\* is sent, a batch is sent only after the one before it was merged and
\* reported, and the Synthesizing stage is entered, and its call made, only
\* after every batch was.
C6_ForwardOnly ==
    /\ pc = stages[Len(stages)]
    /\ \/ \E k \in 1..Len(Pipeline) : stages = SubSeq(Pipeline, 1, k)
       \/ \E k \in 1..(Len(Pipeline) - 1) :
              stages = Append(SubSeq(Pipeline, 1, k), "Failed")
    /\ pc = "Failed" <=> failure # "none"
    /\ \A p \in 2..Len(log) : Follows(log[p - 1], log[p])
    /\ HasEvent("sum_call") => Len(raw_threads) = Len(forum) /\ Len(threads) = Len(forum)
    /\ \A p \in 1..Len(log) :
          log[p].ev = "sum_call" => Len(progress) >= log[p].n - 1
    /\ (SummariseReturned \/ "Synthesizing" \in {stages[k] : k \in 1..Len(stages)}) =>
          Len(progress) = CeilDiv(Len(threads), batch)
    /\ HasEvent("syn_call") => SummariseReturned

\* a whole run with two batches
C6_Witness ==
    /\ pc = "Done" /\ stages = Pipeline
    /\ Len(batches) = 2

\* ------------------------------------------------------------------------ C7
\* C7: progress is reported once per merged batch, right after the merge, with
\* done/total for the threads of the batches merged so far: the values lie in
\* (0, 1], increase strictly, and the last is 1 once summarise_threads has
\* returned; twelve threads in batches of six give two model calls and the
\* values 1/2 and 1.
C7_Progress ==
    /\ Len(progress) = Cardinality({p \in 1..Len(log) : log[p].ev = "merge"})
    /\ \A p \in 1..Len(log) :
          /\ log[p].ev = "merge" => p < Len(log) /\ log[p + 1] = Event("progress", log[p].n)
          /\ log[p].ev = "progress" => p > 1 /\ log[p - 1] = Event("merge", log[p].n)
    /\ \A b \in 1..Len(batches) :
          Cardinality({p \in 1..Len(log) : log[p] = Event("progress", b)})
              = IF Merged(b) THEN 1 ELSE 0
    /\ \A k \in 1..Len(progress) :
          /\ progress[k] = <<BatchLast(k), Len(threads)>>
          /\ 0 < progress[k][1] /\ progress[k][1] <= progress[k][2]
    /\ \A k \in 1..(Len(progress) - 1) :
          progress[k][1] * progress[k + 1][2] < progress[k + 1][1] * progress[k][2]
    /\ (SummariseReturned /\ Len(threads) > 0) =>
          /\ Len(progress) = sumCalls
          /\ progress[Len(progress)][1] = progress[Len(progress)][2]
    /\ (SummariseReturned /\ Len(threads) = 12 /\ batch = 6) =>
          /\ sumCalls = 2
          /\ Len(progress) = 2
          /\ 2 * progress[1][1] = progress[1][2]
          /\ progress[2][1] = progress[2][2]

\* the run of twelve threads in batches of six, its first reply unparsable
C7_Witness ==
    /\ SummariseReturned
    /\ Len(threads) = 12 /\ batch = 6
    /\ replies[1] = InvalidReply
    /\ progress = <<<<6, 12>>, <<12, 12>>>>

\* ------------------------------------------------------------------------ C8
\* C8: summarise_threads sends one request per batch and none otherwise (none
\* at all, and no progress report, for an empty list), and every call of
\* generate_report that has ended has sent exactly one request.
C8_CallAccounting ==
    /\ sumCalls = Len(batches)
    /\ (SummariseReturned /\ Len(threads) = 0) => (sumCalls = 0 /\ progress = <<>>)
    /\ SummariseReturned => sumCalls = CeilDiv(Len(threads), batch)
    /\ synCalls <= 1
    /\ ReportEnded => synCalls = 1

\* ------------------------------------------------------------------------ C9
\* C9: the listing and the synthesis call are each made at most once; after a
\* fetch error no model call is made, after a synthesis error the one call is
\* not repeated; Failed is final; and a report is stored only in a run that
\* went through all stages to Done.
C9_FatalErrors ==
    /\ fetchCalls <= 1 /\ synCalls <= 1
    /\ failure = "fetch" =>
          /\ pc = "Failed" /\ fetchCalls = 1
          /\ sumCalls = 0 /\ synCalls = 0
          /\ threads = <<>> /\ ~request.sent
    /\ failure = "synthesis_call" => pc = "Failed" /\ synCalls = 1
    /\ HasEvent("fetch_raise") => failure = "fetch"
    /\ HasEvent("syn_raise") => failure = "synthesis_call"
    /\ \A k \in 1..Len(stages) : stages[k] = "Failed" => k = Len(stages)
    /\ pc = "Failed" => report_md = NoReport
    /\ report_md # NoReport =>
          /\ pc = "Done" /\ stages = Pipeline /\ failure = "none"
          /\ HasEvent("fetch_return") /\ SummariseReturned /\ HasEvent("syn_reply")

\* the synthesis call raised after threads were summarised
C9_Witness ==
    /\ pc = "Failed" /\ failure = "synthesis_call"
    /\ Len(threads) > 0
    /\ report_md = NoReport

\* ----------------------------------------------------------------------- C10
\* C10: when the model call of batch k raises, the run is Failed with no
\* synthesis call and no report, no batch after k was sent, progress was
\* reported for the batches before k only, their threads keep the summary
\* merged from their reply and the threads of batch k and later have none;
\* an unparsable reply, by contrast, is merged as empty summaries.
C10_CallErrorPropagates ==
    /\ HasEvent("sum_raise") => failure = "summarise_call"
    /\ failure = "summarise_call" =>
          LET k == Len(batches) IN
          /\ pc = "Failed"
          /\ log[Len(log)] = Event("sum_raise", k)
          /\ sumCalls = k /\ Len(replies) = k - 1 /\ Len(progress) = k - 1
          /\ synCalls = 0 /\ ~request.sent /\ report_md = NoReport
          /\ \A t \in 1..Len(threads) :
                IF t < BatchFirst(k)
                THEN threads[t].summary =
                         SummariesGet(ParseSummaries(replies[BatchOf(t)]), threads[t].id)
                ELSE threads[t].summary = Unset
    /\ \A k \in 1..Len(replies) :
          (replies[k].json = "invalid" /\ k < Len(replies)) =>
              /\ Merged(k)
              /\ \A t \in BatchFirst(k)..BatchLast(k) : threads[t].summary = EmptySummary

\* the call of the second batch raises after the first batch got a gist
C10_Witness ==
    /\ failure = "summarise_call"
    /\ Len(batches) = 2
    /\ threads[1].summary = GistSummary
    /\ threads[Len(threads)].summary = Unset
====
